---- MODULE Spec2Model ----
(***************************************************************************)
(* Barnes-Hut quadtree (src/src/barnes_hut/quadtree.rs) and force          *)
(* evaluator (src/src/barnes_hut/force_calculator.rs).                     *)
(*                                                                         *)
(* Every f64 of the program is modelled as an exact rational <<num, den>>  *)
(* with den > 0 and gcd(num, den) = 1.  All inputs of the model are dyadic *)
(* rationals of small magnitude, on which the halvings, sums and           *)
(* comparisons performed by the tree code are exact in f64 as well.        *)
(* Body indices are 0-based as in the source; a Vec<usize> is a sequence.  *)
(***************************************************************************)
EXTENDS Integers, Sequences, FiniteSets, Bags, TLC

VARIABLES bodies, max_bodies_per_leaf, bounds, root, phase, ninserts,
          calc, pending, completed, forces

vars == <<bodies, max_bodies_per_leaf, bounds, root, phase, ninserts,
          calc, pending, completed, forces>>

-----------------------------------------------------------------------------
(* Bounds of the model.                                                    *)

MaxBodies == 3

MaxInserts == 2

-----------------------------------------------------------------------------
(* Exact rational arithmetic standing for f64 arithmetic.                  *)

Abs(x) == IF x < 0 THEN -x ELSE x

RECURSIVE GCD(_, _)
GCD(a, b) == IF b = 0 THEN a ELSE GCD(b, a % b)

Norm(n, d) ==
    LET s == IF d < 0 THEN -1 ELSE 1
        g == GCD(Abs(n), Abs(d))
    IN  <<(s * n) \div g, (s * d) \div g>>

R(k) == <<k, 1>>
Zero == R(0)
One == R(1)
Two == R(2)

RAdd(a, b) == Norm(a[1] * b[2] + b[1] * a[2], a[2] * b[2])
RSub(a, b) == Norm(a[1] * b[2] - b[1] * a[2], a[2] * b[2])
RMul(a, b) == Norm(a[1] * b[1], a[2] * b[2])
RDiv(a, b) == Norm(a[1] * b[2], a[2] * b[1])
RLt(a, b) == a[1] * b[2] < b[1] * a[2]
RGt(a, b) == RLt(b, a)
RGeq(a, b) == ~RLt(a, b)
RMax(a, b) == IF RLt(a, b) THEN b ELSE a

\* Vector2 / Point2 of f64
Vec(x, y) == <<x, y>>
ZeroVec == Vec(Zero, Zero)
VAdd(u, v) == Vec(RAdd(u[1], v[1]), RAdd(u[2], v[2]))
VSub(u, v) == Vec(RSub(u[1], v[1]), RSub(u[2], v[2]))
VScale(u, k) == Vec(RMul(u[1], k), RMul(u[2], k))
VDivScalar(u, k) == Vec(RDiv(u[1], k), RDiv(u[2], k))
MagnitudeSquared(u) == RAdd(RMul(u[1], u[1]), RMul(u[2], u[2]))

-----------------------------------------------------------------------------
(* physics/body.rs                                                         *)

Body(p, m) == [pos |-> p, mass |-> m]

BodiesLen(bs) == Cardinality(DOMAIN bs)

-----------------------------------------------------------------------------
(* barnes_hut/quadtree.rs                                                  *)

new_leaf == [kind |-> "Leaf", body_indices |-> <<>>]

is_leaf(node) == node.kind = "Leaf"

NewInternal ==
    [kind |-> "Internal",
     children |-> <<new_leaf, new_leaf, new_leaf, new_leaf>>,
     center_of_mass |-> ZeroVec,
     total_mass |-> Zero]

\* bounds are (min_x, max_x, min_y, max_y)
Width(b) == RSub(b[2], b[1])
Height(b) == RSub(b[4], b[3])
MidX(b) == RDiv(RAdd(b[1], b[2]), Two)
MidY(b) == RDiv(RAdd(b[3], b[4]), Two)

get_quadrant(pos, b) ==
    LET ge_x == RGeq(pos[1], MidX(b))
        ge_y == RGeq(pos[2], MidY(b))
    IN  IF ~ge_x /\ ~ge_y THEN 2
        ELSE IF ge_x /\ ~ge_y THEN 3
        ELSE IF ~ge_x /\ ge_y THEN 0
        ELSE 1

get_child_bounds(b, quadrant) ==
    CASE quadrant = 0 -> <<b[1], MidX(b), MidY(b), b[4]>>
      [] quadrant = 1 -> <<MidX(b), b[2], MidY(b), b[4]>>
      [] quadrant = 2 -> <<b[1], MidX(b), b[3], MidY(b)>>
      [] quadrant = 3 -> <<MidX(b), b[2], b[3], MidY(b)>>

\* faulty variant: the two size tests joined by "and"
TooSmallBoth(b) == RLt(Width(b), One) /\ RLt(Height(b), One)

\* the guard "Prevent infinite subdivision" of subdivide_node
TooSmall(b) == RLt(Width(b), One) \/ RLt(Height(b), One)

\* faulty variant: capacity test off by one
OverfullOffByOne(body_indices, maxb) ==
    Len(body_indices) > maxb + 1 /\ Len(body_indices) > 1

\* the condition under which a leaf that was just pushed to is subdivided
Overfull(body_indices, maxb) ==
    Len(body_indices) > maxb /\ Len(body_indices) > 1

RECURSIVE insert_body_recursive(_, _, _, _, _)
RECURSIVE subdivide_node(_, _, _, _)
RECURSIVE Reinsert(_, _, _, _, _)
RECURSIVE ReinsertPushOnly(_, _, _, _, _)

insert_body_recursive(node, body_index, node_bounds, bs, maxb) ==
    IF is_leaf(node)
    THEN LET pushed == [node EXCEPT !.body_indices = Append(@, body_index)]
         IN  IF Overfull(pushed.body_indices, maxb)
             THEN subdivide_node(pushed, node_bounds, bs, maxb)
             ELSE pushed
    ELSE LET quadrant == get_quadrant(bs[body_index].pos, node_bounds)
             child_bounds == get_child_bounds(node_bounds, quadrant)
         IN  [node EXCEPT !.children[quadrant + 1] =
                 insert_body_recursive(@, body_index, child_bounds, bs, maxb)]

\* faulty variant: the old indices are pushed onto the child leaves without the
\* capacity test of insert_body_recursive
ReinsertPushOnly(node, old_indices, node_bounds, bs, maxb) ==
    IF old_indices = <<>> THEN node
    ELSE LET body_index == Head(old_indices)
             quadrant == get_quadrant(bs[body_index].pos, node_bounds)
             next == [node EXCEPT !.children[quadrant + 1].body_indices =
                         Append(@, body_index)]
         IN  ReinsertPushOnly(next, Tail(old_indices), node_bounds, bs, maxb)

\* the loop "for body_index in old_indices" of subdivide_node
Reinsert(node, old_indices, node_bounds, bs, maxb) ==
    IF old_indices = <<>> THEN node
    ELSE LET body_index == Head(old_indices)
             quadrant == get_quadrant(bs[body_index].pos, node_bounds)
             child_bounds == get_child_bounds(node_bounds, quadrant)
             next == [node EXCEPT !.children[quadrant + 1] =
                         insert_body_recursive(@, body_index, child_bounds, bs, maxb)]
         IN  Reinsert(next, Tail(old_indices), node_bounds, bs, maxb)

\* faulty variant: the re-insertion loop starts at the second old index
subdivide_node_skip_first(node, node_bounds, bs, maxb) ==
    IF TooSmall(node_bounds) THEN node
    ELSE IF is_leaf(node)
         THEN IF Len(node.body_indices) <= 1 THEN node
              ELSE Reinsert(NewInternal, Tail(node.body_indices), node_bounds, bs, maxb)
         ELSE node

subdivide_node(node, node_bounds, bs, maxb) ==
    IF TooSmall(node_bounds) THEN node
    ELSE IF is_leaf(node)
         THEN IF Len(node.body_indices) <= 1 THEN node
              ELSE Reinsert(NewInternal, node.body_indices, node_bounds, bs, maxb)
         ELSE node

insert_body(rt, body_index, b, bs, maxb) ==
    insert_body_recursive(rt, body_index, b, bs, maxb)

\* the loop "for i in 0..bodies.len()" of build_from_bodies
RECURSIVE InsertFrom(_, _, _, _, _)
InsertFrom(rt, i, b, bs, maxb) ==
    IF i >= BodiesLen(bs) THEN rt
    ELSE InsertFrom(insert_body(rt, i, b, bs, maxb), i + 1, b, bs, maxb)

\* one step of the loop over a leaf child's body_indices
RECURSIVE AccumulateLeaf(_, _, _)
AccumulateLeaf(acc, body_indices, bs) ==
    IF body_indices = <<>> THEN acc
    ELSE LET body == bs[Head(body_indices)]
         IN  AccumulateLeaf(
                 [total |-> RAdd(acc.total, body.mass),
                  weighted_pos |-> VAdd(acc.weighted_pos, VScale(body.pos, body.mass))],
                 Tail(body_indices), bs)

\* faulty variant: an Internal child's centre of mass is added without its mass weight
AccumulateChildUnweighted(acc, child, bs) ==
    IF is_leaf(child)
    THEN AccumulateLeaf(acc, child.body_indices, bs)
    ELSE IF RGt(child.total_mass, Zero)
         THEN [total |-> RAdd(acc.total, child.total_mass),
               weighted_pos |-> VAdd(acc.weighted_pos, child.center_of_mass)]
         ELSE acc

\* faulty variant: only Leaf children are counted
AccumulateChildLeavesOnly(acc, child, bs) ==
    IF is_leaf(child)
    THEN AccumulateLeaf(acc, child.body_indices, bs)
    ELSE acc

\* the match on an (already aggregated) child inside the loop over children
AccumulateChild(acc, child, bs) ==
    IF is_leaf(child)
    THEN AccumulateLeaf(acc, child.body_indices, bs)
    ELSE IF RGt(child.total_mass, Zero)
         THEN [total |-> RAdd(acc.total, child.total_mass),
               weighted_pos |-> VAdd(acc.weighted_pos,
                                     VScale(child.center_of_mass, child.total_mass))]
         ELSE acc

\* the final "if total > 0.0" store
StoreAggregate(node, acc) ==
    IF RGt(acc.total, Zero)
    THEN [node EXCEPT !.center_of_mass = VDivScalar(acc.weighted_pos, acc.total),
                      !.total_mass = acc.total]
    ELSE node

RECURSIVE calculate_center_of_mass(_, _)
calculate_center_of_mass(node, bs) ==
    IF is_leaf(node) THEN node
    ELSE LET kids == [q \in 1..4 |-> calculate_center_of_mass(node.children[q], bs)]
             a0 == [total |-> Zero, weighted_pos |-> ZeroVec]
             a1 == AccumulateChild(a0, kids[1], bs)
             a2 == AccumulateChild(a1, kids[2], bs)
             a3 == AccumulateChild(a2, kids[3], bs)
             a4 == AccumulateChild(a3, kids[4], bs)
         IN  StoreAggregate([node EXCEPT !.children = kids], a4)

build_from_bodies(b, bs, maxb) ==
    calculate_center_of_mass(InsertFrom(new_leaf, 0, b, bs, maxb), bs)

-----------------------------------------------------------------------------
(* barnes_hut/force_calculator.rs                                          *)
(*                                                                         *)
(* A force (Vector2<f64>) is the bag of its non-zero terms: "+=" is bag    *)
(* union and the zero vector is the empty bag, so that two forces are      *)
(* equal exactly when they sum the same terms (in whatever order).  A term *)
(* is direction * magnitude with the direction r.normalize() kept symbolic *)
(* (the vector it is along, or NaN for the zero vector) and the magnitude  *)
(* an exact rational (or non-finite after a division by zero).             *)

ZeroForce == EmptyBag

\* Vector2::normalize: x / |x|, which is NaN for the zero vector
Normalize(r) == [nan |-> r = ZeroVec, along |-> r]

\* f64 division
FDiv(a, b) ==
    IF b = Zero THEN [finite |-> FALSE, value |-> Zero]
    ELSE [finite |-> TRUE, value |-> RDiv(a, b)]

\* direction * force_magnitude
Scaled(direction, magnitude) ==
    IF ~direction.nan /\ magnitude.finite /\ magnitude.value = Zero
    THEN ZeroForce
    ELSE SetToBag({[direction |-> direction, magnitude |-> magnitude]})

\* distance > x for distance = sqrt(d2) and x >= 0
DistanceGt(d2, x) == RGt(d2, RMul(x, x))

\* distance > 1e-10: every distance of the model is 0 or far above 1e-10
AboveFloor(d2) == RGt(d2, Zero)

should_use_approximation(c, body_pos, node_center, node_width) ==
    LET d2 == MagnitudeSquared(VSub(body_pos, node_center))
    IN  DistanceGt(d2, RDiv(node_width, c.theta)) /\ AboveFloor(d2)

\* faulty variant: the near-zero separation test is missing
calculate_direct_force_unguarded(c, body1_index, body2_index, bs) ==
    LET body1 == bs[body1_index]
        body2 == bs[body2_index]
        r == VSub(body2.pos, body1.pos)
        r_squared == MagnitudeSquared(r)
        force_magnitude ==
            FDiv(RMul(RMul(c.g, body1.mass), body2.mass), RAdd(r_squared, c.eps))
    IN  Scaled(Normalize(r), force_magnitude)

calculate_direct_force(c, body1_index, body2_index, bs) ==
    LET body1 == bs[body1_index]
        body2 == bs[body2_index]
        r == VSub(body2.pos, body1.pos)
        r_squared == MagnitudeSquared(r)
        force_magnitude ==
            FDiv(RMul(RMul(c.g, body1.mass), body2.mass), RAdd(r_squared, c.eps))
    IN  IF RLt(r_squared, RMul(c.eps, c.eps))
        THEN ZeroForce
        ELSE Scaled(Normalize(r), force_magnitude)

calculate_force_from_center_of_mass(c, body_index, bs, center_of_mass, total_mass) ==
    LET body == bs[body_index]
        r == VSub(center_of_mass, body.pos)
        r_squared == MagnitudeSquared(r)
        force_magnitude ==
            FDiv(RMul(RMul(c.g, body.mass), total_mass), RAdd(r_squared, c.eps))
    IN  IF RLt(r_squared, RMul(c.eps, c.eps))
        THEN ZeroForce
        ELSE Scaled(Normalize(r), force_magnitude)

\* the loop over a leaf's body_indices in calculate_force_on_body
RECURSIVE LeafForce(_, _, _, _)
LeafForce(c, body_index, bs, body_indices) ==
    IF body_indices = <<>> THEN ZeroForce
    ELSE LET other_index == Head(body_indices)
             rest == LeafForce(c, body_index, bs, Tail(body_indices))
         IN  IF other_index # body_index
             THEN calculate_direct_force(c, body_index, other_index, bs) (+) rest
             ELSE rest

NodeWidth(b) == RMax(Width(b), Height(b))

RECURSIVE calculate_force_on_body(_, _, _, _, _)

\* faulty variant: the loop over the children stops before the last child
calculate_force_on_body_three(c, body_index, bs, node, node_bounds) ==
    IF is_leaf(node)
    THEN LeafForce(c, body_index, bs, node.body_indices)
    ELSE IF node.total_mass = Zero THEN ZeroForce
    ELSE IF should_use_approximation(c, bs[body_index].pos, node.center_of_mass,
                                     NodeWidth(node_bounds))
    THEN calculate_force_from_center_of_mass(c, body_index, bs,
                                             node.center_of_mass, node.total_mass)
    ELSE LET f(i) == calculate_force_on_body(c, body_index, bs, node.children[i + 1],
                                             get_child_bounds(node_bounds, i))
         IN  f(0) (+) f(1) (+) f(2)

calculate_force_on_body(c, body_index, bs, node, node_bounds) ==
    IF is_leaf(node)
    THEN LeafForce(c, body_index, bs, node.body_indices)
    ELSE IF node.total_mass = Zero THEN ZeroForce
    ELSE IF should_use_approximation(c, bs[body_index].pos, node.center_of_mass,
                                     NodeWidth(node_bounds))
    THEN calculate_force_from_center_of_mass(c, body_index, bs,
                                             node.center_of_mass, node.total_mass)
    ELSE LET f(i) == calculate_force_on_body(c, body_index, bs, node.children[i + 1],
                                             get_child_bounds(node_bounds, i))
         IN  f(0) (+) f(1) (+) f(2) (+) f(3)

\* an output slot of the collected vector
Unset == [set |-> FALSE, force |-> ZeroForce]

\* faulty variant: results are appended in the order in which the tasks complete
CollectInCompletionOrder(out, i, k, value) ==
    [out EXCEPT ![k] = [set |-> TRUE, force |-> value]]

\* collect() of the indexed parallel iterator: the result of item i is
\* written to slot i, whichever task completes k-th
Collect(out, i, k, value) ==
    [out EXCEPT ![i] = [set |-> TRUE, force |-> value]]

-----------------------------------------------------------------------------
(* Inputs of the model.                                                    *)

Q(n, d) == Norm(n, d)

\* positions: two that share the smallest cells, and two far ones that reach
\* the remaining quadrants
PosA == Vec(R(0), R(0))
PosB == Vec(Q(3, 4), Q(1, 4))
PosC == Vec(R(3), R(3))
PosD == Vec(R(1), R(3))

\* Body::new(x, y, 0.0, 0.0, mass)
BodySet ==
    { Body(PosA, R(1)), Body(PosA, R(2)), Body(PosB, R(1)),
      Body(PosC, R(1)), Body(PosC, R(2)), Body(PosD, R(2)) }

\* with massless bodies, for the aggregation
BodySetTree == BodySet \cup { Body(PosA, R(0)), Body(PosC, R(0)) }

\* with one massless kind, for the traversal of a massless Internal node
BodySetForce == BodySet \cup { Body(PosC, R(0)) }

\* unit masses, for the shape of the tree alone
BodySetInsert == { Body(p, R(1)) : p \in {PosA, PosB, PosC, PosD} }

BoundsSet == { <<R(0), R(4), R(0), R(4)>>, <<R(0), R(2), R(0), R(1)>> }

CapacitySet == { 1, 2 }

BodyArrays(kinds) ==
    UNION { [0..(n - 1) -> kinds] : n \in 0..MaxBodies }

ThetaSet == { R(2), Q(1, 2), Q(1, 8) }

EpsSet == { Q(1, 8), R(2) }

\* BarnesHutForceCalculator::new(theta, g, eps), with g as in main.rs
CalcSet == { [theta |-> t, g |-> R(100), eps |-> e] : t \in ThetaSet, e \in EpsSet }

CalcSetPar == { [theta |-> Q(1, 2), g |-> R(100), eps |-> Q(1, 8)] }

NoCalc == [theta |-> Zero, g |-> Zero, eps |-> Zero]

InitWith(kinds) ==
    /\ bodies \in BodyArrays(kinds)
    /\ max_bodies_per_leaf \in CapacitySet
    /\ bounds \in BoundsSet
    /\ root = new_leaf
    /\ phase = "new"
    /\ ninserts = 0
    /\ calc = NoCalc
    /\ pending = {}
    /\ completed = 0
    /\ forces = <<>>

-----------------------------------------------------------------------------
(* Operations of Quadtree.                                                 *)

InsertBody ==
    /\ ninserts < MaxInserts
    /\ phase \in {"new", "built"}
    /\ \E body_index \in DOMAIN bodies :
          root' = insert_body(root, body_index, bounds, bodies, max_bodies_per_leaf)
    /\ ninserts' = ninserts + 1
    /\ UNCHANGED <<bodies, max_bodies_per_leaf, bounds, phase, calc, pending,
                   completed, forces>>

BuildFromBodies ==
    /\ phase \in {"new", "built"}
    /\ root' = build_from_bodies(bounds, bodies, max_bodies_per_leaf)
    /\ phase' = "built"
    /\ ninserts' = 0
    /\ UNCHANGED <<bodies, max_bodies_per_leaf, bounds, calc, pending,
                   completed, forces>>

(* Operations of BarnesHutForceCalculator.                                 *)

\* calculate_forces on a built tree, from the call to the returned vector
CalculateForces ==
    /\ phase = "built"
    /\ ninserts = 0
    /\ calc' \in CalcSet
    /\ forces' = [i \in DOMAIN bodies |->
                    [set |-> TRUE,
                     force |-> calculate_force_on_body(calc', i, bodies, root, bounds)]]
    /\ phase' = "done"
    /\ UNCHANGED <<bodies, max_bodies_per_leaf, bounds, root, ninserts, pending,
                   completed>>

Init == InitWith(BodySetForce)

Next == BuildFromBodies \/ CalculateForces

Spec == Init /\ [][Next]_vars

InitPar == InitWith(BodySet)

\* the same call, task by task: into_par_iter() makes one task per body index
DispatchForces ==
    /\ phase = "built"
    /\ ninserts = 0
    /\ calc' \in CalcSetPar
    /\ pending' = DOMAIN bodies
    /\ completed' = 0
    /\ forces' = [i \in DOMAIN bodies |-> Unset]
    /\ phase' = IF DOMAIN bodies = {} THEN "done" ELSE "forces"
    /\ UNCHANGED <<bodies, max_bodies_per_leaf, bounds, root, ninserts>>

\* any pending task runs to completion; the call returns after the last one
ForceTask ==
    /\ phase = "forces"
    /\ \E i \in pending :
          /\ forces' = Collect(forces, i, completed,
                               calculate_force_on_body(calc, i, bodies, root, bounds))
          /\ pending' = pending \ {i}
    /\ completed' = completed + 1
    /\ phase' = IF pending' = {} THEN "done" ELSE "forces"
    /\ UNCHANGED <<bodies, max_bodies_per_leaf, bounds, root, ninserts, calc>>

NextPar == BuildFromBodies \/ DispatchForces \/ ForceTask

SpecPar == InitPar /\ [][NextPar]_vars

InitTree == InitWith(BodySetTree)

NextTree == BuildFromBodies

SpecTree == InitTree /\ [][NextTree]_vars

\* the build alone, over the bodies of InitPar
SpecOrder == InitPar /\ [][NextTree]_vars

InitInsert == InitWith(BodySetInsert)

NextInsert == InsertBody \/ BuildFromBodies

SpecInsert == InitInsert /\ [][NextInsert]_vars

-----------------------------------------------------------------------------
(* Views of a tree used by the properties.                                 *)

\* the body indices of the leaves of a subtree, in traversal order
RECURSIVE LeafIndices(_)
LeafIndices(node) ==
    IF is_leaf(node) THEN node.body_indices
    ELSE LeafIndices(node.children[1]) \o LeafIndices(node.children[2])
         \o LeafIndices(node.children[3]) \o LeafIndices(node.children[4])

\* every node of a subtree with its rectangle (recomputed by get_child_bounds
\* along the path) and its depth
RECURSIVE Nodes(_, _, _)
Nodes(node, b, depth) ==
    {[node |-> node, bounds |-> b, depth |-> depth]} \cup
    (IF is_leaf(node) THEN {}
     ELSE UNION { Nodes(node.children[q + 1], get_child_bounds(b, q), depth + 1) :
                  q \in 0..3 })

TreeNodes == Nodes(root, bounds, 0)

Occurrences(s, x) == Cardinality({ k \in 1..Len(s) : s[k] = x })

RECURSIVE MassOf(_, _)
MassOf(indices, bs) ==
    IF indices = <<>> THEN Zero
    ELSE RAdd(bs[Head(indices)].mass, MassOf(Tail(indices), bs))

RECURSIVE MomentOf(_, _)
MomentOf(indices, bs) ==
    IF indices = <<>> THEN ZeroVec
    ELSE VAdd(VScale(bs[Head(indices)].pos, bs[Head(indices)].mass),
              MomentOf(Tail(indices), bs))

AllIndices(bs) == [k \in 1..BodiesLen(bs) |-> k - 1]

SamePosition(indices, bs) ==
    \A j, k \in 1..Len(indices) : bs[indices[j]].pos = bs[indices[k]].pos

RECURSIVE FloorLog2(_)
FloorLog2(x) == IF RLt(x, Two) THEN 0 ELSE 1 + FloorLog2(RDiv(x, Two))

RMin(a, b) == IF RLt(a, b) THEN a ELSE b

\* a rectangle at least 1 wide and 1 high
AtLeastUnit(b) == RGeq(Width(b), One) /\ RGeq(Height(b), One)

Built == phase = "built" /\ ninserts = 0

-----------------------------------------------------------------------------
(* Properties of the tree.                                                 *)

\* C1: after build_from_bodies every body index 0..n-1 is listed in exactly
\* one leaf and exactly once, and nothing else is listed.
C1_Completeness ==
    Built =>
        LET s == LeafIndices(root)
        IN  /\ \A i \in DOMAIN bodies : Occurrences(s, i) = 1
            /\ \A k \in 1..Len(s) : s[k] \in DOMAIN bodies

\* a build in which a leaf was subdivided more than once
C1_Witness ==
    /\ Built
    /\ BodiesLen(bodies) = MaxBodies
    /\ \E nd \in TreeNodes : ~is_leaf(nd.node) /\ nd.depth >= 1
    /\ Cardinality({ nd \in TreeNodes : is_leaf(nd.node) /\ nd.node.body_indices # <<>> }) >= 2

\* C2 as stated: after build_from_bodies the root carries a total_mass that
\* equals the sum of all masses, for every body set.
C2_RootMassAlways ==
    Built => ~is_leaf(root) /\ root.total_mass = MassOf(AllIndices(bodies), bodies)

\* the root is subdivided exactly when the body count exceeds the capacity
\* (and one) and the bounds are at least 1 x 1
RootSubdivides ==
    /\ BodiesLen(bodies) > max_bodies_per_leaf
    /\ BodiesLen(bodies) > 1
    /\ AtLeastUnit(bounds)

\* C2 amended: when the root was subdivided, its total_mass is the sum of all
\* masses; otherwise the root is a Leaf listing every body and carries no
\* total_mass.
C2_RootMass ==
    Built =>
        IF RootSubdivides
        THEN ~is_leaf(root) /\ root.total_mass = MassOf(AllIndices(bodies), bodies)
        ELSE is_leaf(root) /\ root.body_indices = AllIndices(bodies)

\* a subdivided root over a nested Internal node, with positive mass
C2_Witness ==
    /\ Built
    /\ ~is_leaf(root)
    /\ RGt(root.total_mass, Zero)
    /\ \E q \in 1..4 : ~is_leaf(root.children[q])

\* C3: every Internal node's total_mass is the mass of the bodies of its
\* subtree and its center_of_mass times total_mass is their summed
\* mass-weighted position; a massless subtree keeps total_mass = 0.
C3_Aggregates ==
    Built =>
        \A nd \in TreeNodes :
            ~is_leaf(nd.node) =>
                LET sub == LeafIndices(nd.node)
                IN  /\ nd.node.total_mass = MassOf(sub, bodies)
                    /\ VScale(nd.node.center_of_mass, nd.node.total_mass)
                         = MomentOf(sub, bodies)
                    /\ (MassOf(sub, bodies) = Zero => nd.node.total_mass = Zero)

\* a root whose centre of mass differs from that of its Internal child, the
\* child's being no integer (a quotient that the parent multiplies back)
C3_Witness ==
    /\ Built
    /\ ~is_leaf(root)
    /\ \E q \in 1..4 :
          /\ ~is_leaf(root.children[q])
          /\ RGt(root.children[q].total_mass, Zero)
          /\ root.children[q].center_of_mass # root.center_of_mass
          /\ root.children[q].center_of_mass[1][2] > 1

\* C5: with bounds at least 1 x 1 no node narrower or lower than 1 is
\* Internal, and no leaf lies deeper than floor(log2(min(W, H))) + 1.
C5_DepthBound ==
    (Built /\ AtLeastUnit(bounds)) =>
        \A nd \in TreeNodes :
            /\ ~is_leaf(nd.node) => AtLeastUnit(nd.bounds)
            /\ nd.depth <= FloorLog2(RMin(Width(bounds), Height(bounds))) + 1

\* two bodies at one position, capacity 1: they end in a leaf at the
\* greatest depth
C5_Witness ==
    /\ Built
    /\ max_bodies_per_leaf = 1
    /\ \E nd \in TreeNodes :
          /\ is_leaf(nd.node)
          /\ Len(nd.node.body_indices) >= 2
          /\ SamePosition(nd.node.body_indices, bodies)
          /\ nd.depth = FloorLog2(RMin(Width(bounds), Height(bounds))) + 1
          /\ nd.depth >= 2

\* the permutations of the body indices
IndexPermutations(n) ==
    { p \in [0..(n - 1) -> 0..(n - 1)] : \A i, j \in 0..(n - 1) : p[i] = p[j] => i = j }

Renamed(indices, p) == { p[indices[k]] : k \in 1..Len(indices) }

\* t2 was built from the array whose entry i is entry p[i] of the array of t1
RECURSIVE SameTree(_, _, _)
SameTree(t1, t2, p) ==
    /\ t1.kind = t2.kind
    /\ IF is_leaf(t1)
       THEN /\ Renamed(t2.body_indices, p) = { t1.body_indices[k] : k \in 1..Len(t1.body_indices) }
            /\ Len(t1.body_indices) = Len(t2.body_indices)
       ELSE /\ t1.total_mass = t2.total_mass
            /\ VScale(t1.center_of_mass, t1.total_mass)
                 = VScale(t2.center_of_mass, t2.total_mass)
            /\ \A q \in 1..4 : SameTree(t1.children[q], t2.children[q], p)

\* C7: the tree built from any permutation of the body array has the same
\* shape, the same bodies in each leaf and the same aggregates.
C7_OrderIndependent ==
    Built =>
        \A p \in IndexPermutations(BodiesLen(bodies)) :
            \A t2 \in { build_from_bodies(bounds, [i \in DOMAIN bodies |-> bodies[p[i]]],
                                          max_bodies_per_leaf) } :
                SameTree(root, t2, p)

\* a build with nested Internal nodes that left a leaf listing two different
\* bodies, whose order in the list depends on the order of the array
C7_Witness ==
    /\ Built
    /\ BodiesLen(bodies) = MaxBodies
    /\ \E nd \in TreeNodes : ~is_leaf(nd.node) /\ nd.depth >= 1
    /\ \E nd \in TreeNodes :
          /\ is_leaf(nd.node)
          /\ \E j, k \in 1..Len(nd.node.body_indices) :
                bodies[nd.node.body_indices[j]] # bodies[nd.node.body_indices[k]]

\* C9: a leaf holds more than max_bodies_per_leaf indices only if all its
\* bodies share one position or its rectangle is narrower or lower than 1.
C9_LeafCapacity ==
    \A nd \in TreeNodes :
        is_leaf(nd.node) =>
            \/ Len(nd.node.body_indices) <= max_bodies_per_leaf
            \/ SamePosition(nd.node.body_indices, bodies)
            \/ ~AtLeastUnit(nd.bounds)

\* after insert_body calls a leaf below the root lists more bodies than the
\* capacity, at distinct positions
C9_Witness ==
    /\ ninserts > 0
    /\ \E nd \in TreeNodes :
          /\ is_leaf(nd.node)
          /\ Len(nd.node.body_indices) > max_bodies_per_leaf
          /\ ~SamePosition(nd.node.body_indices, bodies)
          /\ nd.depth >= 1

-----------------------------------------------------------------------------
(* Properties of the force evaluation.                                     *)

Done == phase = "done"

\* sequential evaluation in index order
SequentialForces ==
    [i \in DOMAIN bodies |->
        [set |-> TRUE, force |-> calculate_force_on_body(calc, i, bodies, root, bounds)]]

\* C4: whatever the order in which the per-body tasks run, the returned vector
\* has one entry per body, entry i being the force on bodies[i] as the
\* sequential evaluation computes it, and the evaluation changes neither the
\* bodies nor the tree.
C4_ParallelEqualsSequential ==
    /\ [](Done => (DOMAIN forces = DOMAIN bodies /\ forces = SequentialForces))
    /\ [][(phase # "new") => (bodies' = bodies /\ root' = root)]_vars

\* the task of the last body completed first, and the bodies' forces differ
C4_Witness ==
    /\ phase = "forces"
    /\ completed = 1
    /\ BodiesLen(bodies) = MaxBodies
    /\ (MaxBodies - 1) \notin pending
    /\ forces[MaxBodies - 1].force # ZeroForce
    /\ \A i, j \in DOMAIN bodies :
          i # j => SequentialForces[i] # SequentialForces[j]

\* the approximation test fails for every Internal node and every body
NoApproximation ==
    \A nd \in TreeNodes :
        ~is_leaf(nd.node) =>
            \A i \in DOMAIN bodies :
                ~should_use_approximation(calc, bodies[i].pos, nd.node.center_of_mass,
                                          NodeWidth(nd.bounds))

\* the direct O(n^2) sum for body i, in index order
RECURSIVE DirectSumFrom(_, _)
DirectSumFrom(i, j) ==
    IF j >= BodiesLen(bodies) THEN ZeroForce
    ELSE IF j = i THEN DirectSumFrom(i, j + 1)
    ELSE calculate_direct_force(calc, i, j, bodies) (+) DirectSumFrom(i, j + 1)

\* C6: when no Internal node passes the approximation test for any body, the
\* force on each body is the sum of the direct force law over all other bodies,
\* each counted once.
C6_DirectWhenNoApproximation ==
    (Done /\ NoApproximation) =>
        \A i \in DOMAIN bodies : forces[i].force = DirectSumFrom(i, 0)

\* three bodies in a tree with nested Internal nodes, every body pulled by
\* both others
C6_Witness ==
    /\ Done
    /\ NoApproximation
    /\ BodiesLen(bodies) = MaxBodies
    /\ \E nd \in TreeNodes : ~is_leaf(nd.node) /\ nd.depth >= 1
    /\ \A i \in DOMAIN bodies : BagCardinality(forces[i].force) = MaxBodies - 1

Sound(term) == ~term.direction.nan /\ term.magnitude.finite

\* C8: with eps > 0 no term of any force is a normalized zero vector or a
\* quotient by zero, and every direct or centre-of-mass term whose squared
\* separation is below eps^2 (bodies at one position in particular) is zero.
C8_NoDegenerateTerm ==
    (Done /\ RGt(calc.eps, Zero)) =>
        /\ \A i \in DOMAIN bodies : \A t \in BagToSet(forces[i].force) : Sound(t)
        /\ \A i, j \in DOMAIN bodies :
              RLt(MagnitudeSquared(VSub(bodies[j].pos, bodies[i].pos)),
                  RMul(calc.eps, calc.eps))
                  => calculate_direct_force(calc, i, j, bodies) = ZeroForce
        /\ \A i \in DOMAIN bodies : \A nd \in TreeNodes :
              (/\ ~is_leaf(nd.node)
               /\ RLt(MagnitudeSquared(VSub(nd.node.center_of_mass, bodies[i].pos)),
                      RMul(calc.eps, calc.eps)))
                  => calculate_force_from_center_of_mass(
                         calc, i, bodies, nd.node.center_of_mass, nd.node.total_mass)
                       = ZeroForce

\* two bodies at one position and a third elsewhere that pulls them
C8_Witness ==
    /\ Done
    /\ RGt(calc.eps, Zero)
    /\ \E i, j \in DOMAIN bodies :
          /\ i # j
          /\ bodies[i].pos = bodies[j].pos
          /\ forces[i].force # ZeroForce

InBounds(pos, b) ==
    /\ RGeq(pos[1], b[1]) /\ RGeq(b[2], pos[1])
    /\ RGeq(pos[2], b[3]) /\ RGeq(b[4], pos[2])

\* the traversal for body_index takes the aggregate term of an Internal node
\* whose subtree lists body_index
RECURSIVE UsesOwnMass(_, _, _, _, _)
UsesOwnMass(c, body_index, bs, node, node_bounds) ==
    IF is_leaf(node) THEN FALSE
    ELSE IF node.total_mass = Zero THEN FALSE
    ELSE IF should_use_approximation(c, bs[body_index].pos, node.center_of_mass,
                                     NodeWidth(node_bounds))
    THEN Occurrences(LeafIndices(node), body_index) > 0
    ELSE \E q \in 0..3 :
            UsesOwnMass(c, body_index, bs, node.children[q + 1],
                        get_child_bounds(node_bounds, q))

\* C10: for bodies inside the bounds the force on body i never takes the
\* aggregate term of a node whose subtree contains body i.
C10_NoSelfForce ==
    (Done /\ \A i \in DOMAIN bodies : InBounds(bodies[i].pos, bounds)) =>
        \A i \in DOMAIN bodies : ~UsesOwnMass(calc, i, bodies, root, bounds)

====
